---- MODULE Spec2Model ----
(***************************************************************************)
(* A model of rsig (src/rsig/rsig.h): signal_state (the registry of        *)
(* observers behind a mutex), signal (the handle that owns a signal_state   *)
(* through a shared_ptr), connection (identifier + weak_ptr) and slot (the  *)
(* move-only RAII wrapper of one connection).                               *)
(*                                                                          *)
(* Two threads call the API, as in the life_time tests (the test body and   *)
(* the std::async emitter).  A call that takes the registry mutex is split  *)
(* in the call (the thread starts to wait for the mutex) and the body run   *)
(* under the mutex; emit is split further, one step per callback start and  *)
(* return, because the callbacks run while the mutex is held.               *)
(***************************************************************************)
EXTENDS Integers, Sequences, FiniteSets, TLC

\* ---------------------------------------------------------------- bounds
\* the number of connects, returned or waiting, the live registries accept
MaxConnects == 2

\* ------------------------------------------------------------- universes
Threads == {"main", "worker"}
Handles == {"h1", "h2"}
Regs == {1, 2}
ConnVars == {"c1", "c2"}
SlotVars == {"s1", "s2"}
Locs == ConnVars \cup SlotVars
Callbacks == {"f"}
\* a callback that calls back into the signal that is emitting it
Reentrant == "reenter"
\* a default-constructed std::function
EmptyFun == "unset"
\* an empty shared_ptr / weak_ptr
NullReg == 0
NoThread == "none"
NoObj == "-"

VARIABLES
    hst,        \* handle -> "unborn" | "live" | "dead"
    hstate,     \* handle -> signal::state, a registry or NullReg
    regst,      \* registry -> "unborn" | "alive" | "destroyed"
    last_id,    \* registry -> signal_state::last_id
    observers,  \* registry -> signal_state::observers, a map id -> callback
    mutex,      \* registry -> the thread that holds signal_state::mutex
    conn,       \* connection variable or slot -> [id, wstate]
    sst,        \* slot -> "unborn" | "live" | "dead"
    th,         \* thread -> the call it is in
    res,        \* the call that returned or threw in the last step, if one did
                \* (constructors, destructors of signals and copies leave none)
    terminated, \* std::terminate or a failed assert has ended the process
    connected,  \* history: registry -> the connects in the order they returned, [id, fun]
    removed     \* history: registry -> the erases that succeeded, [id, via]

vars == <<hst, hstate, regst, last_id, observers, mutex, conn, sst, th, res,
          terminated, connected, removed>>

\* ------------------------------------------------------------ data types
EmptyMap == <<>>

\* connection{}: id = 0u, wstate empty
EmptyConn == [id |-> 0, wstate |-> NullReg]

IdleThread == [pc |-> "idle", op |-> NoObj, h |-> NoObj, loc |-> NoObj,
               src |-> NoObj, fun |-> NoObj, id |-> 0, reg |-> NullReg,
               wstate |-> NullReg, it |-> 0, called |-> <<>>]

NoResult == [t |-> NoThread, op |-> NoObj, status |-> NoObj, ret |-> 0,
             called |-> <<>>, reg |-> NullReg, loc |-> NoObj, src |-> NoObj,
             id |-> 0, wstate |-> NullReg]

\* the outcome of call op of thread t on registry r and object l: status is
\* "ok" or the exception; id is the connection_id passed to the registry,
\* wstate the registry of the connection passed to signal::disconnect,
\* ret the size_t returned (emit, erase), called the callbacks emit ran
Result(t, op, status, r, l) ==
    [NoResult EXCEPT !.t = t, !.op = op, !.status = status, !.reg = r, !.loc = l]

\* a mutant of Erase: the entry stays
EraseNothing(m, id) == m

\* std::map::erase(key)
Erase(m, id) == [k \in DOMAIN m \ {id} |-> m[k]]

\* std::map::emplace(key, value): an existing key keeps its value
Emplace(m, id, fun) ==
    [k \in DOMAIN m \cup {id} |-> IF k \in DOMAIN m THEN m[k] ELSE fun]

\* the keys of a std::map after `it`, and the first of them (iteration order)
KeysAfter(m, it) == {k \in DOMAIN m : k > it}

\* a mutant of NextKey: the iteration starts from the largest key
NextKeyLargest(m, it) ==
    CHOOSE k \in KeysAfter(m, it) : \A j \in KeysAfter(m, it) : k >= j

NextKey(m, it) == CHOOSE k \in KeysAfter(m, it) : \A j \in KeysAfter(m, it) : k <= j

\* ------------------------------------------------------------- ownership
\* a mutant of Owners: a connection holds a shared_ptr, not a weak_ptr
OwnersWithConnections(r, hs, hp, thr) ==
    Cardinality({h \in Handles : hs[h] = "live" /\ hp[h] = r})
    + Cardinality({t \in Threads : thr[t].pc = "conn_wait" /\ thr[t].reg = r})
    + Cardinality({l \in Locs : conn[l].wstate = r})

\* shared_ptr use_count of a registry: the live handles whose state is it,
\* and the threads inside connection::disconnect holding the locked pointer
Owners(r, hs, hp, thr) ==
    Cardinality({h \in Handles : hs[h] = "live" /\ hp[h] = r})
    + Cardinality({t \in Threads : thr[t].pc = "conn_wait" /\ thr[t].reg = r})

\* the registries' states once the owners are hs, hp, thr: a registry whose
\* last shared_ptr is gone is destroyed
Reclaim(hs, hp, thr) ==
    [r \in Regs |-> IF regst[r] = "alive" /\ Owners(r, hs, hp, thr) = 0
                    THEN "destroyed" ELSE regst[r]]

\* the memory of a destroyed registry is gone
Wipe(f, rs, empty) == [r \in Regs |-> IF rs[r] = "destroyed" THEN empty ELSE f[r]]

\* a mutant of WeakLock: the raw pointer, whether the registry lives or not
WeakLockUnchecked(c) == c.wstate

\* std::weak_ptr::lock(): the registry, or NullReg when it is expired or empty
WeakLock(c) == IF c.wstate # NullReg /\ regst[c.wstate] = "alive"
               THEN c.wstate ELSE NullReg

\* ------------------------------------------------------- object discipline
\* connection and slot are not thread safe: a call on one waits for no
\* other thread to be inside a call on the same object
LocBusy(l) == \E t \in Threads : th[t].pc # "idle" /\ (th[t].loc = l \/ th[t].src = l)

\* a signal must be kept alive (and not moved) while a call on it runs
HandleBusy(h) == \E t \in Threads : th[t].pc # "idle" /\ th[t].h = h

Idle(t) == ~terminated /\ th[t].pc = "idle"

LocLive(l) == l \in ConnVars \/ sst[l] = "live"

\* ------------------------------------------------------------------ Init
Init ==
    /\ hst = [h \in Handles |-> "unborn"]
    /\ hstate = [h \in Handles |-> NullReg]
    /\ regst = [r \in Regs |-> "unborn"]
    /\ last_id = [r \in Regs |-> 0]
    /\ observers = [r \in Regs |-> EmptyMap]
    /\ mutex = [r \in Regs |-> NoThread]
    /\ conn = [l \in Locs |-> EmptyConn]
    /\ sst = [s \in SlotVars |-> "unborn"]
    /\ th = [t \in Threads |-> IdleThread]
    /\ res = NoResult
    /\ terminated = FALSE
    /\ connected = [r \in Regs |-> <<>>]
    /\ removed = [r \in Regs |-> {}]

\* ------------------------------------------------- signal: the handle
\* the registry make_shared allocates: one that was never used
FreshReg == CHOOSE r \in Regs : regst[r] = "unborn" /\ \A q \in Regs : regst[q] = "unborn" => r <= q

\* signal(): state(std::make_shared<signal_state<Args...>>())
SignalCtor(t, h) ==
    /\ Idle(t)
    /\ hst[h] = "unborn"
    /\ \E r \in Regs : regst[r] = "unborn"
    /\ hst' = [hst EXCEPT ![h] = "live"]
    /\ hstate' = [hstate EXCEPT ![h] = FreshReg]
    /\ regst' = [regst EXCEPT ![FreshReg] = "alive"]
    /\ UNCHANGED <<last_id, observers, mutex, conn, sst, th, terminated,
                   connected, removed>>
    /\ res' = NoResult

\* a mutant of SignalMoveCtor: the move restarts the identifiers
SignalMoveCtorRenumbers(t, h, o) ==
    /\ Idle(t)
    /\ hst[h] = "unborn" /\ hst[o] = "live" /\ ~HandleBusy(o)
    /\ hst' = [hst EXCEPT ![h] = "live"]
    /\ hstate' = [hstate EXCEPT ![h] = hstate[o], ![o] = NullReg]
    /\ last_id' = [r \in Regs |-> IF r = hstate[o] THEN 0 ELSE last_id[r]]
    /\ UNCHANGED <<regst, observers, mutex, conn, sst, th, terminated,
                   connected, removed>>
    /\ res' = [Result(t, "signal_move_ctor", "ok", hstate[o], h) EXCEPT !.src = o]

\* signal(signal&& other): state(std::move(other.state))
SignalMoveCtor(t, h, o) ==
    /\ Idle(t)
    /\ hst[h] = "unborn" /\ hst[o] = "live" /\ ~HandleBusy(o)
    /\ hst' = [hst EXCEPT ![h] = "live"]
    /\ hstate' = [hstate EXCEPT ![h] = hstate[o], ![o] = NullReg]
    /\ UNCHANGED <<regst, last_id, observers, mutex, conn, sst, th, terminated,
                   connected, removed>>
    /\ res' = [Result(t, "signal_move_ctor", "ok", hstate[o], h) EXCEPT !.src = o]

\* what a change of the owners to hs, hp, thr does to the registries, whose
\* observers and history are obs and rem before it
ReleaseWith(hs, hp, thr, obs, rem) ==
    /\ regst' = Reclaim(hs, hp, thr)
    /\ last_id' = Wipe(last_id, regst', 0)
    /\ observers' = Wipe(obs, regst', EmptyMap)
    /\ mutex' = Wipe(mutex, regst', NoThread)
    /\ connected' = Wipe(connected, regst', <<>>)
    /\ removed' = Wipe(rem, regst', {})

Release(hs, hp, thr) == ReleaseWith(hs, hp, thr, observers, removed)

\* signal& operator=(signal&& other): if (this != &other) state = std::move(other.state)
SignalMoveAssign(t, h, o) ==
    /\ Idle(t)
    /\ hst[h] = "live" /\ hst[o] = "live" /\ ~HandleBusy(h) /\ ~HandleBusy(o)
    /\ hstate' = IF h = o THEN hstate
                 ELSE [hstate EXCEPT ![h] = hstate[o], ![o] = NullReg]
    /\ Release(hst, hstate', th)
    /\ UNCHANGED <<hst, conn, sst, th, terminated>>
    /\ res' = [Result(t, "signal_assign", "ok", hstate[o], h) EXCEPT !.src = o]

\* ~signal() = default: the shared_ptr releases the registry
SignalDtor(t, h) ==
    /\ Idle(t)
    /\ hst[h] = "live" /\ ~HandleBusy(h)
    /\ hst' = [hst EXCEPT ![h] = "dead"]
    /\ hstate' = [hstate EXCEPT ![h] = NullReg]
    /\ Release(hst', hstate', th)
    /\ UNCHANGED <<conn, sst, th, terminated>>
    /\ res' = NoResult

\* assert(state) of connect, disconnect and emit on a moved-from signal
AssertFails(t, h) ==
    /\ Idle(t)
    /\ hst[h] = "live" /\ hstate[h] = NullReg
    /\ terminated' = TRUE
    /\ res' = Result(t, "call", "assert_failed", NullReg, h)
    /\ UNCHANGED <<hst, hstate, regst, last_id, observers, mutex, conn, sst, th,
                   connected, removed>>

\* ---------------------------------------------------------------- connect
\* the connects that wait for a mutex
PendingConnects == Cardinality({t \in Threads : th[t].pc = "connect_wait"})

\* the identifiers the registries have issued
RECURSIVE Issued(_)
Issued(R) == IF R = {} THEN 0
             ELSE LET r == CHOOSE q \in R : TRUE IN last_id[r] + Issued(R \ {r})

\* signal::connect(fun) -> signal_state::connect(fun), up to the lock_guard
ConnectCall(t, h, fun, c) ==
    /\ Idle(t)
    /\ hst[h] = "live" /\ hstate[h] # NullReg
    /\ ~LocBusy(c)
    /\ fun # EmptyFun
    /\ Issued(Regs) + PendingConnects < MaxConnects
    /\ th' = [th EXCEPT ![t] = [IdleThread EXCEPT !.pc = "connect_wait",
                 !.op = "connect", !.h = h, !.loc = c, !.fun = fun,
                 !.reg = hstate[h]]]
    /\ UNCHANGED <<hst, hstate, regst, last_id, observers, mutex, conn, sst,
                   terminated, connected, removed>>
    /\ res' = NoResult

\* a mutant of ConnectInvalid: the check of fun comes after ++last_id
ConnectInvalidAdvances(t, h) ==
    /\ Idle(t)
    /\ hst[h] = "live" /\ hstate[h] # NullReg
    /\ Issued(Regs) + PendingConnects < MaxConnects
    /\ last_id' = [last_id EXCEPT ![hstate[h]] = @ + 1]
    /\ res' = Result(t, "connect", "invalid_argument", hstate[h], NoObj)
    /\ UNCHANGED <<hst, hstate, regst, observers, mutex, conn, sst, th,
                   terminated, connected, removed>>

\* if (!fun) throw std::invalid_argument
ConnectInvalid(t, h) ==
    /\ Idle(t)
    /\ hst[h] = "live" /\ hstate[h] # NullReg
    /\ res' = Result(t, "connect", "invalid_argument", hstate[h], NoObj)
    /\ UNCHANGED <<hst, hstate, regst, last_id, observers, mutex, conn, sst, th,
                   terminated, connected, removed>>

\* a mutant of NewId: the identifier is the number of entries plus one
NewIdFromSize(r) == Cardinality(DOMAIN observers[r]) + 1

\* the identifier signal_state::connect issues: auto id = ++last_id
NewId(r) == last_id[r] + 1

\* a mutant of ConnectDo: connect takes no lock_guard
ConnectDoNoLock(t) ==
    LET r == th[t].reg
        id == NewId(r) IN
    /\ ~terminated
    /\ th[t].pc = "connect_wait"
    /\ last_id' = [last_id EXCEPT ![r] = id]
    /\ observers' = [observers EXCEPT ![r] = Emplace(@, id, th[t].fun)]
    /\ conn' = [conn EXCEPT ![th[t].loc] = [id |-> id, wstate |-> r]]
    /\ connected' = [connected EXCEPT ![r] = Append(@, [id |-> id, fun |-> th[t].fun])]
    /\ res' = [Result(t, "connect", "ok", r, th[t].loc) EXCEPT !.id = id]
    /\ th' = [th EXCEPT ![t] = IdleThread]
    /\ UNCHANGED <<hst, hstate, regst, mutex, sst, terminated, removed>>

\* under the mutex: ++last_id, observers.emplace(id, fun), return id;
\* signal::connect returns connection{id, state}
ConnectDo(t) ==
    LET r == th[t].reg
        id == NewId(r) IN
    /\ ~terminated
    /\ th[t].pc = "connect_wait"
    /\ mutex[r] = NoThread
    /\ last_id' = [last_id EXCEPT ![r] = id]
    /\ observers' = [observers EXCEPT ![r] = Emplace(@, id, th[t].fun)]
    /\ conn' = [conn EXCEPT ![th[t].loc] = [id |-> id, wstate |-> r]]
    /\ connected' = [connected EXCEPT ![r] = Append(@, [id |-> id, fun |-> th[t].fun])]
    /\ res' = [Result(t, "connect", "ok", r, th[t].loc) EXCEPT !.id = id]
    /\ th' = [th EXCEPT ![t] = IdleThread]
    /\ UNCHANGED <<hst, hstate, regst, mutex, sst, terminated, removed>>

\* ------------------------------------------------------------- disconnect
\* signal::disconnect(connection con): con is a copy, state->disconnect(con.id)
DisconnectCall(t, h, c) ==
    /\ Idle(t)
    /\ hst[h] = "live" /\ hstate[h] # NullReg
    /\ ~LocBusy(c)
    /\ th' = [th EXCEPT ![t] = [IdleThread EXCEPT !.pc = "disconnect_wait",
                 !.op = "disconnect", !.h = h, !.id = conn[c].id,
                 !.wstate = conn[c].wstate, !.reg = hstate[h]]]
    /\ UNCHANGED <<hst, hstate, regst, last_id, observers, mutex, conn, sst,
                   terminated, connected, removed>>
    /\ res' = NoResult

\* a mutant of EraseCount: the result of erase is taken to be 1
EraseCountOne(m, id) == 1

\* auto c = observers.erase(id): the number of entries erased
EraseCount(m, id) == IF id \in DOMAIN m THEN 1 ELSE 0

\* signal_state::disconnect under the mutex, an entry erased (c == 1)
DisconnectDo(t) ==
    LET r == th[t].reg
        id == th[t].id IN
    /\ ~terminated
    /\ th[t].pc = "disconnect_wait"
    /\ mutex[r] = NoThread
    /\ EraseCount(observers[r], id) = 1
    /\ observers' = [observers EXCEPT ![r] = Erase(@, id)]
    /\ removed' = [removed EXCEPT ![r] = @ \cup {[id |-> id, via |-> "signal"]}]
    /\ res' = [Result(t, "disconnect", "ok", r, NoObj) EXCEPT !.id = id, !.ret = 1,
                                                         !.wstate = th[t].wstate]
    /\ th' = [th EXCEPT ![t] = IdleThread]
    /\ UNCHANGED <<hst, hstate, regst, last_id, mutex, conn, sst, terminated,
                   connected>>

\* signal_state::disconnect under the mutex, nothing erased:
\* throw std::runtime_error("Invalid connection id.")
DisconnectThrow(t) ==
    LET r == th[t].reg
        id == th[t].id IN
    /\ ~terminated
    /\ th[t].pc = "disconnect_wait"
    /\ mutex[r] = NoThread
    /\ EraseCount(observers[r], id) # 1
    /\ res' = [Result(t, "disconnect", "not_found", r, NoObj) EXCEPT !.id = id,
                                                  !.wstate = th[t].wstate]
    /\ th' = [th EXCEPT ![t] = IdleThread]
    /\ UNCHANGED <<hst, hstate, regst, last_id, observers, mutex, conn, sst,
                   terminated, connected, removed>>

\* ------------------------------------------------------------------- emit
\* signal::emit -> signal_state::emit, up to the lock_guard
EmitCall(t, h) ==
    /\ Idle(t)
    /\ hst[h] = "live" /\ hstate[h] # NullReg
    /\ th' = [th EXCEPT ![t] = [IdleThread EXCEPT !.pc = "emit_wait",
                 !.op = "emit", !.h = h, !.reg = hstate[h]]]
    /\ UNCHANGED <<hst, hstate, regst, last_id, observers, mutex, conn, sst,
                   terminated, connected, removed>>
    /\ res' = NoResult

\* a mutant of EmitLock: emit runs the callbacks without the mutex
EmitLockNoMutex(t) ==
    /\ ~terminated
    /\ th[t].pc = "emit_wait"
    /\ th' = [th EXCEPT ![t].pc = "emit_loop"]
    /\ UNCHANGED <<hst, hstate, regst, last_id, observers, mutex, conn, sst,
                   terminated, connected, removed>>
    /\ res' = NoResult

\* auto lk = std::lock_guard(mutex)
EmitLock(t) ==
    /\ ~terminated
    /\ th[t].pc = "emit_wait"
    /\ mutex[th[t].reg] = NoThread
    /\ mutex' = [mutex EXCEPT ![th[t].reg] = t]
    /\ th' = [th EXCEPT ![t].pc = "emit_loop"]
    /\ UNCHANGED <<hst, hstate, regst, last_id, observers, conn, sst,
                   terminated, connected, removed>>
    /\ res' = NoResult

\* for (auto& [id, fun] : observers) fun(args...): the next callback starts
EmitInvoke(t) ==
    LET m == observers[th[t].reg] IN
    /\ ~terminated
    /\ th[t].pc = "emit_loop"
    /\ KeysAfter(m, th[t].it) # {}
    /\ LET k == NextKey(m, th[t].it) IN
       th' = [th EXCEPT ![t].pc = "emit_fun", ![t].it = k, ![t].fun = m[k],
                        ![t].called = Append(@, [id |-> k, fun |-> m[k]])]
    /\ UNCHANGED <<hst, hstate, regst, last_id, observers, mutex, conn, sst,
                   terminated, connected, removed>>
    /\ res' = NoResult

\* the callback returns
EmitFunReturn(t) ==
    /\ ~terminated
    /\ th[t].pc = "emit_fun"
    /\ th[t].fun \in Callbacks
    /\ th' = [th EXCEPT ![t].pc = "emit_loop", ![t].fun = NoObj]
    /\ UNCHANGED <<hst, hstate, regst, last_id, observers, mutex, conn, sst,
                   terminated, connected, removed>>
    /\ res' = NoResult

\* a mutant of EmitFunReenter: the mutex lets its owner lock it again, the
\* inner call and the callback return
EmitFunReenterRecursive(t) ==
    /\ ~terminated
    /\ th[t].pc = "emit_fun"
    /\ th[t].fun = Reentrant
    /\ th' = [th EXCEPT ![t].pc = "emit_loop", ![t].fun = NoObj]
    /\ UNCHANGED <<hst, hstate, regst, last_id, observers, mutex, conn, sst,
                   terminated, connected, removed>>
    /\ res' = NoResult

\* the callback calls connect, disconnect or emit of the signal that runs it:
\* a lock_guard on the std::mutex this thread already holds.  std::mutex::lock
\* by the owner is undefined behaviour; the builds either block the thread
\* for ever (this action) or detect it (EmitFunReenterThrows)
EmitFunReenter(t) ==
    /\ ~terminated
    /\ th[t].pc = "emit_fun"
    /\ th[t].fun = Reentrant
    /\ th' = [th EXCEPT ![t].pc = "reenter_wait"]
    /\ UNCHANGED <<hst, hstate, regst, last_id, observers, mutex, conn, sst,
                   terminated, connected, removed>>
    /\ res' = NoResult

\* the lock by the owner is detected: std::mutex::lock throws
\* std::system_error (resource_deadlock_would_occur), which leaves the
\* callback and emit; the lock_guard of emit unlocks
EmitFunReenterThrows(t) ==
    LET r == th[t].reg IN
    /\ ~terminated
    /\ th[t].pc = "emit_fun"
    /\ th[t].fun = Reentrant
    /\ res' = [Result(t, "emit", "system_error", r, NoObj) EXCEPT
                 !.called = th[t].called]
    /\ mutex' = [mutex EXCEPT ![r] = NoThread]
    /\ th' = [th EXCEPT ![t] = IdleThread]
    /\ UNCHANGED <<hst, hstate, regst, last_id, observers, conn, sst, terminated,
                   connected, removed>>

\* a mutant of EmitReturn: emit returns with the mutex still locked
EmitReturnKeepsLock(t) ==
    LET r == th[t].reg IN
    /\ ~terminated
    /\ th[t].pc = "emit_loop"
    /\ KeysAfter(observers[r], th[t].it) = {}
    /\ res' = [Result(t, "emit", "ok", r, NoObj) EXCEPT
                 !.ret = Cardinality(DOMAIN observers[r]), !.called = th[t].called]
    /\ th' = [th EXCEPT ![t] = IdleThread]
    /\ UNCHANGED <<hst, hstate, regst, last_id, observers, mutex, conn, sst,
                   terminated, connected, removed>>

\* return observers.size(), the lock_guard unlocks
EmitReturn(t) ==
    LET r == th[t].reg IN
    /\ ~terminated
    /\ th[t].pc = "emit_loop"
    /\ KeysAfter(observers[r], th[t].it) = {}
    /\ res' = [Result(t, "emit", "ok", r, NoObj) EXCEPT
                 !.ret = Cardinality(DOMAIN observers[r]), !.called = th[t].called]
    /\ mutex' = [mutex EXCEPT ![r] = NoThread]
    /\ th' = [th EXCEPT ![t] = IdleThread]
    /\ UNCHANGED <<hst, hstate, regst, last_id, observers, conn, sst, terminated,
                   connected, removed>>

\* ------------------------------------------------------------- connection
\* connection::disconnect of the connection at l, on behalf of call op:
\* if (auto state = wstate.lock()) ... ; an expired or empty wstate ends it
ConnDisconnectBegin(t, l, op, src) ==
    /\ WeakLock(conn[l]) # NullReg
    /\ th' = [th EXCEPT ![t] = [IdleThread EXCEPT !.pc = "conn_wait", !.op = op,
                 !.loc = l, !.src = src, !.id = conn[l].id,
                 !.reg = WeakLock(conn[l])]]
    /\ UNCHANGED <<hst, hstate, regst, last_id, observers, mutex, conn, sst,
                   terminated, connected, removed>>
    /\ res' = NoResult

\* connection::disconnect() called on a connection variable, the lock succeeds
ConnectionDisconnect(t, c) ==
    /\ Idle(t) /\ ~LocBusy(c)
    /\ ConnDisconnectBegin(t, c, "conn_disconnect", NoObj)

\* connection::disconnect() on a variable whose wstate.lock() is null: nothing
ConnectionDisconnectNoop(t, c) ==
    /\ Idle(t) /\ ~LocBusy(c)
    /\ WeakLock(conn[c]) = NullReg
    /\ res' = [Result(t, "conn_disconnect", "ok", NullReg, c) EXCEPT !.id = conn[c].id]
    /\ UNCHANGED <<hst, hstate, regst, last_id, observers, mutex, conn, sst, th,
                   terminated, connected, removed>>

\* a copy of a connection: c = d
ConnCopy(t, c, d) ==
    /\ Idle(t) /\ ~LocBusy(c) /\ ~LocBusy(d)
    /\ c # d
    /\ conn' = [conn EXCEPT ![c] = conn[d]]
    /\ UNCHANGED <<hst, hstate, regst, last_id, observers, mutex, sst, th,
                   terminated, connected, removed>>
    /\ res' = NoResult

\* ------------------------------------------------------------------- slot
\* slot() = default
SlotCtorDefault(t, s) ==
    /\ Idle(t)
    /\ sst[s] = "unborn"
    /\ sst' = [sst EXCEPT ![s] = "live"]
    /\ conn' = [conn EXCEPT ![s] = EmptyConn]
    /\ UNCHANGED <<hst, hstate, regst, last_id, observers, mutex, th,
                   terminated, connected, removed>>
    /\ res' = NoResult

\* slot(rsig::connection conn): conn(std::move(conn)), the argument a copy of c
SlotCtorConn(t, s, c) ==
    /\ Idle(t) /\ ~LocBusy(c)
    /\ sst[s] = "unborn"
    /\ sst' = [sst EXCEPT ![s] = "live"]
    /\ conn' = [conn EXCEPT ![s] = conn[c]]
    /\ UNCHANGED <<hst, hstate, regst, last_id, observers, mutex, th,
                   terminated, connected, removed>>
    /\ res' = NoResult

\* a mutant of SlotMoveCtor: the source keeps its connection
SlotMoveCtorCopies(t, s, o) ==
    /\ Idle(t) /\ ~LocBusy(o)
    /\ sst[s] = "unborn" /\ sst[o] = "live"
    /\ sst' = [sst EXCEPT ![s] = "live"]
    /\ conn' = [conn EXCEPT ![s] = conn[o]]
    /\ UNCHANGED <<hst, hstate, regst, last_id, observers, mutex, th,
                   terminated, connected, removed>>
    /\ res' = [Result(t, "slot_move_ctor", "ok", NullReg, s) EXCEPT !.src = o]

\* slot(slot&& other): conn(std::exchange(other.conn, {}))
SlotMoveCtor(t, s, o) ==
    /\ Idle(t) /\ ~LocBusy(o)
    /\ sst[s] = "unborn" /\ sst[o] = "live"
    /\ sst' = [sst EXCEPT ![s] = "live"]
    /\ conn' = [conn EXCEPT ![s] = conn[o], ![o] = EmptyConn]
    /\ UNCHANGED <<hst, hstate, regst, last_id, observers, mutex, th,
                   terminated, connected, removed>>
    /\ res' = [Result(t, "slot_move_ctor", "ok", NullReg, s) EXCEPT !.src = o]

\* slot::disconnect(): conn.disconnect(), the lock succeeds
SlotDisconnect(t, s) ==
    /\ Idle(t) /\ ~LocBusy(s)
    /\ sst[s] = "live"
    /\ ConnDisconnectBegin(t, s, "slot_disconnect", NoObj)

\* slot::disconnect() on a slot whose connection does not lock: nothing
SlotDisconnectNoop(t, s) ==
    /\ Idle(t) /\ ~LocBusy(s)
    /\ sst[s] = "live"
    /\ WeakLock(conn[s]) = NullReg
    /\ res' = [Result(t, "slot_disconnect", "ok", NullReg, s) EXCEPT !.id = conn[s].id]
    /\ UNCHANGED <<hst, hstate, regst, last_id, observers, mutex, conn, sst, th,
                   terminated, connected, removed>>

\* a mutant of SlotDtor: the slot goes without disconnect()
SlotDtorLeaks(t, s) ==
    /\ Idle(t) /\ ~LocBusy(s)
    /\ sst[s] = "live"
    /\ WeakLock(conn[s]) # NullReg
    /\ sst' = [sst EXCEPT ![s] = "dead"]
    /\ conn' = [conn EXCEPT ![s] = EmptyConn]
    /\ res' = [Result(t, "slot_dtor", "ok", NullReg, s) EXCEPT !.id = conn[s].id]
    /\ UNCHANGED <<hst, hstate, regst, last_id, observers, mutex, th,
                   terminated, connected, removed>>

\* ~slot(): disconnect(), the lock succeeds
SlotDtor(t, s) ==
    /\ Idle(t) /\ ~LocBusy(s)
    /\ sst[s] = "live"
    /\ ConnDisconnectBegin(t, s, "slot_dtor", NoObj)

\* ~slot() of a slot whose connection does not lock: only the slot goes
SlotDtorNoop(t, s) ==
    /\ Idle(t) /\ ~LocBusy(s)
    /\ sst[s] = "live"
    /\ WeakLock(conn[s]) = NullReg
    /\ sst' = [sst EXCEPT ![s] = "dead"]
    /\ conn' = [conn EXCEPT ![s] = EmptyConn]
    /\ res' = [Result(t, "slot_dtor", "ok", NullReg, s) EXCEPT !.id = conn[s].id]
    /\ UNCHANGED <<hst, hstate, regst, last_id, observers, mutex, th,
                   terminated, connected, removed>>

\* a mutant of SlotMoveAssign: the held connection is overwritten without
\* disconnect()
SlotMoveAssignNoDisconnect(t, s, o) ==
    /\ Idle(t) /\ ~LocBusy(s) /\ ~LocBusy(o)
    /\ sst[s] = "live" /\ sst[o] = "live"
    /\ s # o
    /\ WeakLock(conn[s]) # NullReg
    /\ conn' = [conn EXCEPT ![s] = conn[o], ![o] = EmptyConn]
    /\ res' = [Result(t, "slot_assign", "ok", NullReg, s) EXCEPT !.src = o,
                                                          !.id = conn[s].id]
    /\ UNCHANGED <<hst, hstate, regst, last_id, observers, mutex, sst, th,
                   terminated, connected, removed>>

\* slot& operator=(slot&& other), this != &other: disconnect(), the lock succeeds
SlotMoveAssign(t, s, o) ==
    /\ Idle(t) /\ ~LocBusy(s) /\ ~LocBusy(o)
    /\ sst[s] = "live" /\ sst[o] = "live"
    /\ s # o
    /\ ConnDisconnectBegin(t, s, "slot_assign", o)

\* operator=(slot&&) when this == &other, or when the held connection does not
\* lock: conn = std::exchange(other.conn, {})
SlotMoveAssignNoop(t, s, o) ==
    /\ Idle(t) /\ ~LocBusy(s) /\ ~LocBusy(o)
    /\ sst[s] = "live" /\ sst[o] = "live"
    /\ s = o \/ WeakLock(conn[s]) = NullReg
    /\ conn' = IF s = o THEN conn
               ELSE [conn EXCEPT ![s] = conn[o], ![o] = EmptyConn]
    /\ res' = [Result(t, "slot_assign", "ok", NullReg, s) EXCEPT !.src = o,
                                                          !.id = conn[s].id]
    /\ UNCHANGED <<hst, hstate, regst, last_id, observers, mutex, sst, th,
                   terminated, connected, removed>>

\* a mutant of ConnAfterErase: connection::disconnect does not reset itself
ConnAfterEraseKeeps(op, l, src) ==
    IF op = "slot_assign"
    THEN [conn EXCEPT ![l] = conn[src], ![src] = EmptyConn]
    ELSE conn

\* the connections after connection::disconnect erased the entry of l:
\* wstate = {}, id = 0u, then what the caller does next
ConnAfterErase(op, l, src) ==
    IF op = "slot_assign"
    THEN [conn EXCEPT ![l] = conn[src], ![src] = EmptyConn]
    ELSE [conn EXCEPT ![l] = EmptyConn]

\* state->disconnect(id) under the mutex, an entry erased; the connection is
\* reset, the locked shared_ptr released, and the caller goes on
ConnDisconnectErase(t) ==
    LET r == th[t].reg
        id == th[t].id
        l == th[t].loc
        op == th[t].op IN
    /\ ~terminated
    /\ th[t].pc = "conn_wait"
    /\ mutex[r] = NoThread
    /\ EraseCount(observers[r], id) = 1
    /\ conn' = ConnAfterErase(op, l, th[t].src)
    /\ sst' = IF op = "slot_dtor" THEN [sst EXCEPT ![l] = "dead"] ELSE sst
    /\ th' = [th EXCEPT ![t] = IdleThread]
    /\ ReleaseWith(hst, hstate, th', [observers EXCEPT ![r] = Erase(@, id)],
                   [removed EXCEPT ![r] = @ \cup {[id |-> id, via |-> "connection"]}])
    /\ res' = [Result(t, op, "ok", r, l) EXCEPT !.id = id, !.ret = 1,
                                              !.src = th[t].src]
    /\ UNCHANGED <<hst, hstate, terminated>>

\* the calls whose exception reaches a noexcept function: ~slot(), operator=
Noexcept(op) == op \in {"slot_dtor", "slot_assign"}

\* state->disconnect(id) throws std::runtime_error out of
\* connection::disconnect(): the connection is not reset, the locked
\* shared_ptr is released by the unwinding
ConnDisconnectThrow(t) ==
    LET r == th[t].reg IN
    /\ ~terminated
    /\ th[t].pc = "conn_wait"
    /\ mutex[r] = NoThread
    /\ EraseCount(observers[r], th[t].id) # 1
    /\ ~Noexcept(th[t].op)
    /\ th' = [th EXCEPT ![t] = IdleThread]
    /\ Release(hst, hstate, th')
    /\ res' = [Result(t, th[t].op, "not_found", r, th[t].loc) EXCEPT
                 !.id = th[t].id]
    /\ UNCHANGED <<hst, hstate, conn, sst, terminated>>

\* the std::runtime_error leaves ~slot() or the noexcept operator=:
\* std::terminate
SlotTerminate(t) ==
    LET r == th[t].reg IN
    /\ ~terminated
    /\ th[t].pc = "conn_wait"
    /\ mutex[r] = NoThread
    /\ EraseCount(observers[r], th[t].id) # 1
    /\ Noexcept(th[t].op)
    /\ terminated' = TRUE
    /\ res' = [Result(t, th[t].op, "terminate", r, th[t].loc) EXCEPT
                 !.id = th[t].id, !.src = th[t].src]
    /\ UNCHANGED <<hst, hstate, regst, last_id, observers, mutex, conn, sst, th,
                   connected, removed>>

\* --------------------------------------------------------------- the system
Funs == Callbacks \cup {Reentrant}

\* the calls of thread t on the signals H with the connection variables C
SignalCalls(t, H, C, F) ==
    \/ \E h \in H, fun \in F, c \in C : ConnectCall(t, h, fun, c)
    \/ \E h \in H : ConnectInvalid(t, h)
    \/ ConnectDo(t)
    \/ \E h \in H, c \in C : DisconnectCall(t, h, c)
    \/ DisconnectDo(t)
    \/ DisconnectThrow(t)
    \/ \E h \in H : EmitCall(t, h)
    \/ EmitLock(t)
    \/ EmitInvoke(t)
    \/ EmitFunReturn(t)
    \/ EmitReturn(t)

\* the calls of thread t on the connection variables C
ConnectionCalls(t, C) ==
    \/ \E c \in C : ConnectionDisconnect(t, c)
    \/ \E c \in C : ConnectionDisconnectNoop(t, c)
    \/ ConnDisconnectErase(t)
    \/ ConnDisconnectThrow(t)

\* the calls of thread t on the slots S
SlotCalls(t, S, C) ==
    \/ \E s \in S : SlotCtorDefault(t, s)
    \/ \E s \in S, c \in C : SlotCtorConn(t, s, c)
    \/ \E s \in S : SlotDisconnect(t, s)
    \/ \E s \in S : SlotDisconnectNoop(t, s)
    \/ \E s \in S : SlotDtor(t, s)
    \/ \E s \in S : SlotDtorNoop(t, s)
    \/ SlotTerminate(t)

\* the moves of the slots S
SlotMoves(t, S) ==
    \/ \E s, o \in S : SlotMoveCtor(t, s, o)
    \/ \E s, o \in S : SlotMoveAssign(t, s, o)
    \/ \E s, o \in S : SlotMoveAssignNoop(t, s, o)

\* the moves of the signals H
SignalMoves(t, H) ==
    \/ \E h, o \in H : SignalMoveCtor(t, h, o)
    \/ \E h, o \in H : SignalMoveAssign(t, h, o)
    \/ \E h \in H : AssertFails(t, h)

\* One thread, one signal, two connection variables, two slots.
Next ==
    \/ SignalCtor("main", "h1")
    \/ SignalDtor("main", "h1")
    \/ SignalCalls("main", {"h1"}, ConnVars, Callbacks)
    \/ ConnectionCalls("main", ConnVars)
    \/ \E c, d \in ConnVars : ConnCopy("main", c, d)
    \/ SlotCalls("main", SlotVars, ConnVars)
    \/ SlotMoves("main", SlotVars)

Spec == Init /\ [][Next]_vars

\* One thread, two signals and their moves, one slot.
NextTwo ==
    \/ \E h \in Handles : SignalCtor("main", h)
    \/ \E h \in Handles : SignalDtor("main", h)
    \/ SignalMoves("main", Handles)
    \/ SignalCalls("main", Handles, ConnVars, Callbacks)
    \/ ConnectionCalls("main", ConnVars)

SpecTwo == Init /\ [][NextTwo]_vars

\* Two threads, one signal, two connection variables, one slot.
NextMT ==
    \/ SignalCtor("main", "h1")
    \/ SignalDtor("main", "h1")
    \/ \E t \in Threads :
        \/ SignalCalls(t, {"h1"}, ConnVars, Callbacks)
        \/ ConnectionCalls(t, ConnVars)
        \/ \E c, d \in ConnVars : ConnCopy(t, c, d)
        \/ SlotCalls(t, {"s1"}, ConnVars)

SpecMT == Init /\ [][NextMT]_vars

\* One thread, one signal, callbacks that call back into it.
NextReenter ==
    \/ SignalCtor("main", "h1")
    \/ SignalCalls("main", {"h1"}, {"c1"}, Funs)
    \/ EmitFunReenter("main")
    \/ EmitFunReenterThrows("main")

SpecReenter == Init /\ [][NextReenter]_vars

\* the steps of thread t that take the mutex of the registry
LockSteps(t) ==
    \/ ConnectDo(t)
    \/ DisconnectDo(t)
    \/ DisconnectThrow(t)
    \/ EmitLock(t)

\* the steps of thread t that run with the mutex held: the callbacks return
\* and emit goes on to its end
HeldSteps(t) ==
    \/ EmitInvoke(t)
    \/ EmitFunReturn(t)
    \/ EmitReturn(t)

\* Two threads, one signal that stays, connect, disconnect and emit.
NextFair ==
    \/ SignalCtor("main", "h1")
    \/ \E t \in Threads : SignalCalls(t, {"h1"}, ConnVars, Callbacks)

\* a thread that holds the mutex keeps running; a thread that waits for the
\* mutex gets it if it is free again and again (a fair mutex)
Fairness ==
    \A t \in Threads : WF_vars(HeldSteps(t)) /\ SF_vars(LockSteps(t))

SpecFair == Init /\ [][NextFair]_vars /\ Fairness

\* ------------------------------------------------------------ properties
\* the identifiers erased from registry r
RemovedIds(r) == {e.id : e \in removed[r]}

\* the connects of registry r that were not disconnected, in connect order
RegisteredInOrder(r) == SelectSeq(connected[r], LAMBDA e : e.id \notin RemovedIds(r))

\* C1: an emit that returns has invoked exactly the callbacks that were
\* connected and not disconnected, each once, in the order they were
\* connected, and returns their number (0 and none when there are none).
C1_EmitInvokesRegisteredInOrder ==
    res.op = "emit" =>
        /\ res.called = RegisteredInOrder(res.reg)
        /\ res.ret = Len(RegisteredInOrder(res.reg))

\* two connects, the first disconnected: emit invokes the second and returns 1
C1_Witness ==
    /\ res.op = "emit" /\ res.ret = 1
    /\ Len(connected[res.reg]) = 2
    /\ res.called = <<[id |-> 2, fun |-> "f"]>>

\* C2: no emit invokes a callback whose connection was disconnected before,
\* through signal::disconnect or through connection::disconnect.
C2_DisconnectedNeverInvoked ==
    \A t \in Threads : \A i \in 1..Len(th[t].called) :
        th[t].called[i].id \notin RemovedIds(th[t].reg)

\* an emit runs a callback after another connection was disconnected
C2_Witness ==
    \E t \in Threads :
        /\ th[t].pc = "emit_fun"
        /\ RemovedIds(th[t].reg) # {}


\* the connection at l was issued by a registry that is destroyed, every
\* signal that owned it being destroyed
SignalGone(l) ==
    /\ conn[l].wstate # NullReg
    /\ regst[conn[l].wstate] = "destroyed"
    /\ \A h \in Handles : ~(hst[h] = "live" /\ hstate[h] = conn[l].wstate)

\* C3: when the registry is destroyed with its signals, disconnect() on a
\* connection or slot it issued, and the destruction of such a slot, take no
\* lock on the registry, raise no error and change neither the registries
\* nor the connections; no thread is ever inside a call on a destroyed
\* registry.
C3_DisconnectAfterSignalGone ==
    /\ [](\A t \in Threads : th[t].pc # "idle" => regst[th[t].reg] = "alive")
    /\ [][\A t \in Threads, l \in Locs :
            (th[t].pc = "idle" /\ LocLive(l) /\ SignalGone(l)) =>
                /\ ~(th'[t].pc = "conn_wait" /\ th'[t].loc = l)
                /\ (res'.t = t /\ res'.loc = l
                      /\ res'.op \in {"conn_disconnect", "slot_disconnect", "slot_dtor"})
                   => /\ res'.status = "ok" /\ res'.ret = 0
                      /\ UNCHANGED <<hst, hstate, regst, last_id, observers, mutex>>
                      /\ \A k \in Locs \ {l} : conn'[k] = conn[k]
                      /\ res'.op # "slot_dtor" => conn'[l] = conn[l]]_vars

\* a slot whose signal is destroyed was disconnected, without error
C3_Witness ==
    /\ res.op = "slot_disconnect" /\ res.status = "ok"
    /\ SignalGone(res.loc)

\* C4: a callback whose disconnect (signal::disconnect, or the destructor or
\* disconnect of the slot or connection holding it) has returned is not
\* executing in any thread, and no emit starts it.
C4_NoCallbackRunsAfterDisconnect ==
    \A t \in Threads :
        th[t].pc = "emit_fun" => th[t].it \notin RemovedIds(th[t].reg)

\* a disconnect or a slot destructor has returned while the other thread is
\* in a call of emit on the same signal
C4_Witness ==
    /\ res.op \in {"disconnect", "slot_dtor"} /\ res.status = "ok" /\ res.ret = 1
    /\ \E t \in Threads : t # res.t /\ th[t].pc = "emit_wait" /\ th[t].reg = res.reg

\* the registries, as a call that has no effect leaves them
RegistriesUnchanged == UNCHANGED <<hst, hstate, regst, last_id, observers, mutex>>

\* the subscription of connection c is registered
Subscribed(c) ==
    /\ c.wstate # NullReg
    /\ regst[c.wstate] = "alive"
    /\ c.id \in DOMAIN observers[c.wstate]

\* C5: the destruction of a slot whose connection is registered with a live
\* signal erases that entry; every emit leaves out the erased entries and
\* counts only the others; the destruction or disconnect of an empty slot
\* raises no error and changes neither the registries nor a connection.
C5_SlotDestructionDeregisters ==
    /\ [][\A s \in SlotVars :
            (sst[s] = "live" /\ sst'[s] = "dead" /\ Subscribed(conn[s])) =>
                /\ regst'[conn[s].wstate] = "alive"
                /\ conn[s].id \notin DOMAIN observers'[conn[s].wstate]
                /\ conn[s].id \in {e.id : e \in removed'[conn[s].wstate]}]_vars
    /\ [](res.op = "emit" =>
            /\ \A i \in 1..Len(res.called) : res.called[i].id \notin RemovedIds(res.reg)
            /\ res.ret = Len(connected[res.reg]) - Cardinality(RemovedIds(res.reg)))
    /\ [][\A t \in Threads, s \in SlotVars :
            (th[t].pc = "idle" /\ sst[s] = "live" /\ conn[s] = EmptyConn
               /\ res'.t = t /\ res'.loc = s
               /\ res'.op \in {"slot_dtor", "slot_disconnect"}) =>
                /\ res'.status = "ok" /\ res'.ret = 0
                /\ RegistriesUnchanged
                /\ conn' = conn]_vars

\* a slot was destroyed, its entry erased, and another callback stays
C5_Witness ==
    /\ res.op = "slot_dtor" /\ res.status = "ok" /\ res.ret = 1
    /\ sst[res.loc] = "dead"
    /\ regst[res.reg] = "alive" /\ DOMAIN observers[res.reg] # {}

\* the moves of a slot: the constructor and the assignment from another slot
SlotMoveOps == {"slot_move_ctor", "slot_assign"}

\* C6: a move of a slot (constructor, or assignment from another slot) gives
\* the destination the source's connection and leaves the source empty; the
\* source's subscription stays registered (unless the destination held the
\* same subscription and dropped it); the destruction or disconnect of the
\* moved-from source then raises no error, erases nothing and leaves the
\* destination its connection.
C6_SlotMoveTransfers ==
    /\ [][(res'.op \in SlotMoveOps /\ res'.status = "ok" /\ res'.loc # res'.src) =>
            LET s == res'.loc
                o == res'.src IN
            /\ conn'[s] = conn[o]
            /\ conn'[o] = EmptyConn
            /\ (Subscribed(conn[o]) /\ conn[o] # conn[s]) =>
                   conn[o].id \in DOMAIN observers'[conn[o].wstate]]_vars
    /\ [][(res.op \in SlotMoveOps /\ res.status = "ok" /\ res.loc # res.src
             /\ res'.op \in {"slot_dtor", "slot_disconnect"} /\ res'.loc = res.src) =>
            /\ res'.status = "ok" /\ res'.ret = 0
            /\ RegistriesUnchanged
            /\ conn'[res.loc] = conn[res.loc]]_vars

\* a registered subscription was moved from one slot to another
C6_Witness ==
    /\ res.op \in SlotMoveOps /\ res.status = "ok" /\ res.loc # res.src
    /\ Subscribed(conn[res.loc])
    /\ conn[res.src] = EmptyConn

\* C7: a connection::disconnect() that erased its entry leaves the connection
\* empty (id 0, wstate cleared) and the entry gone; disconnect() on an empty
\* connection, as the second call on the same object is, takes no lock,
\* raises no error and changes neither the registries nor a connection.
C7_SecondDisconnectIsNoop ==
    /\ [](res.op = "conn_disconnect" /\ res.status = "ok" /\ res.ret = 1 =>
            /\ conn[res.loc] = EmptyConn
            /\ regst[res.reg] = "alive" => res.id \notin DOMAIN observers[res.reg])
    /\ [][\A t \in Threads, c \in ConnVars :
            (th[t].pc = "idle" /\ conn[c] = EmptyConn) =>
                /\ ~(th'[t].pc = "conn_wait" /\ th'[t].loc = c)
                /\ (res'.t = t /\ res'.loc = c /\ res'.op = "conn_disconnect") =>
                      /\ res'.status = "ok" /\ res'.ret = 0
                      /\ RegistriesUnchanged
                      /\ conn' = conn]_vars

\* disconnect() on a connection that an earlier disconnect() emptied, the
\* registry alive
C7_Witness ==
    /\ res.op = "conn_disconnect" /\ res.status = "ok" /\ res.ret = 0
    /\ conn[res.loc] = EmptyConn
    /\ \E r \in Regs : regst[r] = "alive" /\ \E e \in removed[r] : e.via = "connection"

\* C8 (refuted by the code): disconnect() on a copy of a connection that was
\* disconnected through another copy, the registry alive, raises no error.
C8_CopyDisconnectIsNoop ==
    (/\ res.op = "conn_disconnect"
     /\ \A s \in SlotVars : sst[s] = "unborn"
     /\ res.reg # NullReg
     /\ [id |-> res.id, via |-> "connection"] \in removed[res.reg])
    => res.status = "ok"

\* C9 (refuted by the code): slot::disconnect() and ~slot() raise no error.
C9_SlotDisconnectAlwaysSafe ==
    res.op \in {"slot_disconnect", "slot_dtor"} => res.status = "ok"

\* C10: signal::disconnect with an identifier that is not a key of the
\* registry throws the not-found error and leaves the entries and last_id
\* of every registry as they were.
C10_DisconnectUnknownIdThrows ==
    [][\A t \in Threads :
          (th[t].pc = "disconnect_wait" /\ th'[t].pc = "idle"
             /\ th[t].id \notin DOMAIN observers[th[t].reg]) =>
              /\ res'.op = "disconnect" /\ res'.status = "not_found"
              /\ UNCHANGED <<regst, last_id, observers>>]_vars

\* signal::disconnect threw for an identifier the registry never issued
C10_Witness ==
    /\ res.op = "disconnect" /\ res.status = "not_found"
    /\ res.id > last_id[res.reg]

\* C11: connect with an empty std::function throws invalid_argument and
\* changes nothing: no entry, no connection, last_id as it was; so the
\* identifier of every connect that succeeds is the number of connects that
\* succeeded on the registry, however many calls failed in between.
C11_ConnectInvalidThrows ==
    /\ [][(res'.op = "connect" /\ res'.status = "invalid_argument") =>
            /\ RegistriesUnchanged
            /\ UNCHANGED <<conn, th, connected, removed>>]_vars
    /\ [](res.op = "connect" /\ res.status = "ok" =>
            /\ res.id = Len(connected[res.reg])
            /\ res.id = last_id[res.reg])

\* a connect with an empty function failed on a registry that has an entry
C11_Witness ==
    /\ res.op = "connect" /\ res.status = "invalid_argument"
    /\ observers[res.reg] # EmptyMap
    /\ last_id[res.reg] < MaxConnects

\* C12 (refuted by the code): signal::disconnect(con) erases an entry only
\* when con.wstate is the registry of this signal, and returns without an
\* error when the registry of con is destroyed.
C12_DisconnectValidatesRegistry ==
    res.op = "disconnect" =>
        /\ (res.status = "ok" /\ res.ret = 1) => res.wstate = res.reg
        /\ (res.wstate # NullReg /\ regst[res.wstate] = "destroyed") => res.status = "ok"

\* the positions of a thread inside signal_state::emit, the mutex held
EmitPcs == {"emit_loop", "emit_fun"}

\* the identifiers of the callbacks in a sequence of [id, fun]
IdsOf(seq) == {seq[i].id : i \in 1..Len(seq)}

\* C13: a thread inside emit holds the mutex of the registry, and while it
\* does, no step of any thread changes the observers or last_id of that
\* registry or destroys it; the callbacks the emit has invoked are the
\* entries up to its iterator, at its return all the entries, and it
\* returns the number of callbacks it invoked.
C13_EmitExcludesConnectAndDisconnect ==
    /\ [](\A t \in Threads : th[t].pc \in EmitPcs =>
            /\ mutex[th[t].reg] = t
            /\ IdsOf(th[t].called) = {k \in DOMAIN observers[th[t].reg] : k <= th[t].it})
    /\ [][\A t \in Threads : th[t].pc \in EmitPcs =>
            /\ observers'[th[t].reg] = observers[th[t].reg]
            /\ last_id'[th[t].reg] = last_id[th[t].reg]
            /\ regst'[th[t].reg] = "alive"]_vars
    /\ [](res.op = "emit" =>
            /\ IdsOf(res.called) = DOMAIN observers[res.reg]
            /\ res.ret = Len(res.called)
            /\ Cardinality(IdsOf(res.called)) = Len(res.called))

\* a callback runs in one thread while the other thread waits in connect or
\* disconnect for the mutex of the same registry
C13_Witness ==
    \E t, u \in Threads :
        /\ t # u
        /\ th[t].pc = "emit_fun"
        /\ th[u].pc \in {"connect_wait", "disconnect_wait", "conn_wait"}
        /\ th[u].reg = th[t].reg

\* a thread is in a callback that calls back into the signal emitting it
Reentering(t) == th[t].pc = "emit_fun" /\ th[t].fun = Reentrant

StrictlyIncreasing(seq) ==
    \A i, j \in 1..Len(seq) : i < j => seq[i].id < seq[j].id

\* C15: within the lifetime of a registry the identifiers of the connects
\* that succeeded are strictly increasing in connect order, none is issued
\* twice, a connect never returns an identifier that was issued before
\* (erased or not), and emit invokes the callbacks in increasing identifier
\* order, which is the order of their connects.
C15_IdsStrictlyIncreasing ==
    /\ [](\A r \in Regs :
            /\ StrictlyIncreasing(connected[r])
            /\ IdsOf(connected[r]) = 1..last_id[r]
            /\ RemovedIds(r) \subseteq IdsOf(connected[r])
            /\ DOMAIN observers[r] = IdsOf(connected[r]) \ RemovedIds(r))
    /\ [][(res'.op = "connect" /\ res'.status = "ok" /\ res' # res) =>
            /\ res'.id \notin IdsOf(connected[res'.reg])
            /\ res'.id \notin RemovedIds(res'.reg)
            /\ \A k \in IdsOf(connected[res'.reg]) : k < res'.id]_vars
    /\ [](res.op = "emit" => StrictlyIncreasing(res.called))

\* a connect after the disconnect of identifier 1 returns identifier 2
C15_Witness ==
    /\ res.op = "connect" /\ res.status = "ok" /\ res.id = 2
    /\ 1 \in RemovedIds(res.reg)
    /\ DOMAIN observers[res.reg] = {2}

\* a live signal owns registry r
OwnedBySignal(r) == \E h \in Handles : hst[h] = "live" /\ hstate[h] = r

\* a thread is inside connection::disconnect with the locked shared_ptr of r
LockedByDisconnect(r) == \E t \in Threads : th[t].pc = "conn_wait" /\ th[t].reg = r

\* C16 as stated (refuted by the code): a registry is alive only if a live
\* signal owns it, also while a connection::disconnect() or ~slot() runs on
\* another thread.
C16_AliveOnlyIfOwnedBySignal ==
    \A r \in Regs : regst[r] = "alive" => OwnedBySignal(r)

\* C16 amended: a registry is alive only if a live signal owns it or a
\* thread is inside connection::disconnect() with the pointer it locked;
\* the connections and slots that reference it do not keep it alive.
C16_AliveOnlyIfOwnedOrLocked ==
    \A r \in Regs : regst[r] = "alive" => (OwnedBySignal(r) \/ LockedByDisconnect(r))

\* the signal was destroyed while a disconnect() held the locked pointer;
\* the call returned, the registry went with it, and a copy of the
\* connection still refers to it
C16_Witness ==
    /\ res.op \in {"conn_disconnect", "slot_disconnect", "slot_dtor"}
    /\ res.reg # NullReg
    /\ regst[res.reg] = "destroyed"
    /\ \E l \in Locs : LocLive(l) /\ conn[l].wstate = res.reg

\* C17 (refuted by the code): after a call of connection::disconnect(),
\* whether wstate.lock() gave a registry or not, the connection is empty:
\* id 0 and wstate cleared.
C17_ConnectionEmptyAfterDisconnect ==
    res.op = "conn_disconnect" => conn[res.loc] = EmptyConn

\* C18: a move assignment to a slot whose connection is registered, from
\* another slot, erases that entry (and no other) from its registry, gives
\* the slot the connection of the source and leaves the source empty; a
\* move assignment of a slot to itself changes no connection, no slot and
\* no registry.
C18_SlotMoveAssignDisconnectsFirst ==
    [][res'.op = "slot_assign" =>
         LET s == res'.loc
             o == res'.src
             r == conn[s].wstate IN
         /\ (s # o /\ Subscribed(conn[s])) =>
               /\ res'.status = "ok"
               /\ observers'[r] = Erase(observers[r], conn[s].id)
               /\ conn[s].id \notin DOMAIN observers'[r]
               /\ conn[s].id \in {e.id : e \in removed'[r]}
               /\ \A q \in Regs \ {r} : observers'[q] = observers[q]
               /\ conn'[s] = conn[o]
               /\ conn'[o] = EmptyConn
               /\ UNCHANGED <<sst, last_id>>
         /\ s = o =>
               /\ res'.status = "ok"
               /\ RegistriesUnchanged
               /\ UNCHANGED <<conn, sst>>]_vars

\* a slot with a registered connection took over another registered one
C18_Witness ==
    /\ res.op = "slot_assign" /\ res.status = "ok" /\ res.ret = 1
    /\ res.loc # res.src
    /\ Subscribed(conn[res.loc])
    /\ conn[res.src] = EmptyConn
    /\ res.id \notin DOMAIN observers[res.reg]

\* the moves of a signal: the constructor and the assignment from another
SignalMoveOps == {"signal_move_ctor", "signal_assign"}

\* C19: a move of a signal (constructor, or assignment from another signal)
\* gives the destination the registry of the source and leaves the source
\* without one; the registry stays alive with the same observers under the
\* same identifiers and the same last_id, and no connection changes, so the
\* connections issued before still refer to it.  With moves among the
\* steps, every emit still invokes the registered callbacks in connect
\* order and every connect returns the next identifier of its registry.
C19_SignalMoveTransfersRegistry ==
    /\ [][(res'.op \in SignalMoveOps /\ res'.loc # res'.src) =>
            LET h == res'.loc
                o == res'.src
                r == hstate[o] IN
            /\ hstate'[h] = r
            /\ hstate'[o] = NullReg
            /\ res'.reg = r
            /\ UNCHANGED <<conn, sst>>
            /\ r # NullReg =>
                  /\ regst[r] = "alive" /\ regst'[r] = "alive"
                  /\ observers'[r] = observers[r]
                  /\ last_id'[r] = last_id[r]
                  /\ connected'[r] = connected[r]
                  /\ removed'[r] = removed[r]]_vars
    /\ [](res.op = "emit" => res.called = RegisteredInOrder(res.reg))
    /\ [](res.op = "connect" /\ res.status = "ok" => res.id = Len(connected[res.reg]))

\* a registry with an observer and a connection to it was moved to another
\* signal
C19_Witness ==
    /\ res.op \in SignalMoveOps /\ res.loc # res.src
    /\ res.reg # NullReg
    /\ hstate[res.loc] = res.reg
    /\ \E c \in ConnVars : Subscribed(conn[c]) /\ conn[c].wstate = res.reg

\* C20 (refuted by the code): every live signal, a moved-from one included,
\* has a registry that is alive, and no assert(state) of connect,
\* disconnect or emit fails.
C20_SignalAlwaysHasRegistry ==
    /\ \A h \in Handles : hst[h] = "live" =>
          (hstate[h] # NullReg /\ regst[hstate[h]] = "alive")
    /\ res.status # "assert_failed"

\* the registry that issued the connection a disconnect that returned was
\* given: con.wstate of signal::disconnect(con), the locked wstate of
\* connection::disconnect()
IssuerOf(result) ==
    IF result.op = "disconnect" THEN result.wstate ELSE result.reg

\* C21 (refuted by the code): a connection::disconnect() or a
\* signal::disconnect(con) that succeeds erases the entry of the
\* connection's identifier from the registry that issued the connection,
\* and leaves the other entries of that registry, last_id and the other
\* registries as they were.
C21_DisconnectErasesOnlyItsEntry ==
    [][(res'.op \in {"disconnect", "conn_disconnect"}
          /\ res'.status = "ok" /\ res'.ret = 1) =>
         LET r == IssuerOf(res') IN
         /\ r \in Regs
         /\ res'.id \in DOMAIN observers[r]
         /\ observers'[r] = Erase(observers[r], res'.id)
         /\ \A q \in Regs \ {r} : observers'[q] = observers[q]
         /\ UNCHANGED <<last_id, regst>>]_vars

\* C22: with two threads in connect, disconnect and emit on one signal,
\* callbacks that return and a fair mutex, every call that started returns
\* (or throws), and a locked mutex is unlocked again, also by the calls
\* that throw; an emit that returns has run every registered callback and
\* none is still running.
C22_EveryCallReturns ==
    /\ \A t \in Threads : (th[t].pc # "idle") ~> (th[t].pc = "idle")
    /\ \A r \in Regs : (mutex[r] # NoThread) ~> (mutex[r] = NoThread)
    /\ [](res.op = "emit" =>
            /\ res.status = "ok"
            /\ IdsOf(res.called) = DOMAIN observers[res.reg]
            /\ th[res.t].pc = "idle"
            /\ mutex[res.reg] # res.t)
    /\ [](res.status \in {"invalid_argument", "not_found"} =>
            /\ th[res.t].pc = "idle"
            /\ mutex[res.reg] # res.t)

\* a disconnect ended in the not-found error while the other thread waits
\* for the mutex to emit
C22_Witness ==
    /\ res.op = "disconnect" /\ res.status = "not_found"
    /\ \E t \in Threads : t # res.t /\ th[t].pc = "emit_wait" /\ th[t].reg = res.reg
    /\ mutex[res.reg] = NoThread

====
